----------------------------- MODULE MCRegistry -----------------------------
(* Small instances of Registry.tla for TLC. *)
EXTENDS Registry, TLC

\* Clients are interchangeable; models are not (NoCall picks one).
ClientSymmetry == Permutations(Clients)

\* A registry in which versions 1 and 2 of the one model have passed their gates:
\* the state after a call of create and two of update for each of them.
TwoPassedInit ==
  /\ rows = [m \in Models |-> [v \in Version |-> IF v <= 2 THEN "passed" ELSE Absent]]
  /\ draft = rows
  /\ writer = Nobody
  /\ events = LET m == CHOOSE m \in Models : TRUE
                  E(v, a, s) == [action |-> a, model |-> m, version |-> v, status |-> s]
                  gated(v) == << E(v, "created", "training"), E(v, "updated", "evaluating"),
                                 E(v, "updated", "passed") >>
              IN  gated(1) \o gated(2)
  /\ pc = [c \in Clients |-> "idle"]
  /\ op = [c \in Clients |-> NoCall]
  /\ calls = 0
  /\ failures = 0

TwoPassedSpec == TwoPassedInit /\ [][Next]_vars
=============================================================================
