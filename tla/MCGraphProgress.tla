-------------------------- MODULE MCGraphProgress --------------------------
(***************************************************************************)
(* Every graph of up to MaxNodes nodes, up to the names of the nodes: the  *)
(* definition order is an order in which upstreams come first.             *)
(***************************************************************************)
EXTENDS GraphProgress

CONSTANT MaxNodes

AllGraphs ==
  UNION {{[nodes |-> 1..k, up |-> u, rule |-> r, pos |-> [n \in 1..k |-> n]] :
            u \in {f \in [1..k -> SUBSET (1..k)] :
                     \A n \in 1..k : f[n] \subseteq 1..n - 1},
            r \in [1..k -> Rules]} : k \in 1..MaxNodes}
=============================================================================
