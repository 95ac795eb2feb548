----------------------------- MODULE MCRouteNet -----------------------------
(* Instances of RouteNet for TLC: nodes "s", "a", "b" and the target "d".  *)
EXTENDS RouteNet

(* Counters far enough apart that no two nodes draw the same number.       *)
SeqApart == [n \in Node |-> CASE n = "s" -> 0 [] n = "a" -> 10 [] n = "b" -> 20
                               [] OTHER -> 30]
=============================================================================
