-------------------------- MODULE MCStrategySync --------------------------
(* Instances of StrategySync for TLC. *)
EXTENDS StrategySync

\* One strategy sets the option, the other the API server.
Disjoint == {[opt |-> TRUE, api |-> FALSE], [opt |-> FALSE, api |-> TRUE]}
=============================================================================
