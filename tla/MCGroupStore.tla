---------------------------- MODULE MCGroupStore ----------------------------
(* Small instances of GroupStore for TLC. *)
EXTENDS GroupStore, TLC

CONSTANTS u1, u2, a, b

TwoUpdaters == {u1, u2}
Symmetry == Permutations(TwoUpdaters)
TwoKeys == {a, b}
SomeRemotes == {<< >>, <<a>>, <<a, a>>, <<b, a>>}
=============================================================================
