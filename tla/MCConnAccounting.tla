-------------------------- MODULE MCConnAccounting --------------------------
(* Small instances of ConnAccounting for TLC. *)
EXTENDS ConnAccounting, TLC

CONSTANTS k1, k2, k3

ThreeConns == {k1, k2, k3}
Symmetry == Permutations(ThreeConns)
=============================================================================
