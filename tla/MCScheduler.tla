---------------------------- MODULE MCScheduler ----------------------------
(***************************************************************************)
(* The values of the constants for the model-checking runs.                *)
(***************************************************************************)
EXTENDS Scheduler

Solo == [nodes |-> {"a"}, pos |-> [a |-> 1], up |-> [a |-> {}],
         rule |-> [a |-> "all_succeeded"]]

\* b runs on the output of a.
Chain == [nodes |-> {"a", "b"}, pos |-> [a |-> 1, b |-> 2],
          up |-> [a |-> {}, b |-> {"a"}],
          rule |-> [a |-> "all_succeeded", b |-> "all_succeeded"]]

\* b runs on the output of a, c when one of them fails.
Fallback == [nodes |-> {"a", "b", "c"}, pos |-> [a |-> 1, b |-> 2, c |-> 3],
             up |-> [a |-> {}, b |-> {"a"}, c |-> {"a", "b"}],
             rule |-> [a |-> "all_succeeded", b |-> "all_succeeded",
                       c |-> "one_failed"]]

Req(kind, node) == [kind |-> kind, node |-> node]
StartOnly == {Req("start", "a")}
StartRerun == StartOnly \cup {Req("rerun", "a"), Req("rerun", "b")}
StartRerunA == StartOnly \cup {Req("rerun", "a")}
StartCancel == StartOnly \cup {Req("cancel", "a")}
AllKinds == StartRerun \cup StartCancel

NoWorkers == {}
OneWorker == {"w1"}
TwoWorkers == {"w1", "w2"}
=============================================================================
