------------------------ MODULE MCProfileLifecycle ------------------------
(* Small instances of ProfileLifecycle for TLC. *)
EXTENDS ProfileLifecycle, TLC

CONSTANTS p1, p2

TwoProfiles == {p1, p2}
OneProfile == {p1}
Symmetry == Permutations(TwoProfiles)
===========================================================================
