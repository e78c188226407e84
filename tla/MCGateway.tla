------------------------------ MODULE MCGateway ------------------------------
(* A small instance of Gateway.tla for TLC. *)
EXTENDS Gateway, TLC

OnePrefix == [k \in Keys |-> "ook-1"]
OneName   == [k \in Keys |-> "app"]
\* One limit of each kind, and both.
SomeLimits == {[rpm |-> 1, budget |-> NoBudget], [rpm |-> 0, budget |-> 2], [rpm |-> 2, budget |-> 1]}
Unlimited == -1
RequestSymmetry == Permutations(Requests)
=============================================================================
