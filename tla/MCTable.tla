------------------------------- MODULE MCTable -------------------------------
(* Table on small instances: three seats and four peers for safety, two     *)
(* seats and three peers for liveness.                                      *)
EXTENDS Table, TLC

Symmetry == Permutations(Peers)

BothWays == {"Stock", "Ramsch"}
==============================================================================
