-------------------------- MODULE MCTrafficSeries --------------------------
(* Small instances of TrafficSeries for TLC. *)
EXTENDS TrafficSeries, TLC

CONSTANTS c1, a1, looper, tester, ui

OneConfig == {c1}
OneApp == {a1}
TwoCreditors == {looper, tester}
Symmetry == Permutations(TwoCreditors)
=============================================================================
