------------------------------ MODULE MCServing ------------------------------
(* A small instance of Serving.tla for TLC. *)
EXTENDS Serving, TLC

OneModel   == <<"a">>
CmdSymmetry == Permutations(Cmds)
Gateway    == <<"gateway">>
None       == << >>
Pair       == <<"candidate", "incumbent">>
FixedPorts == [gateway |-> 9]
=============================================================================
